---------------------------- MODULE Spec2Model ----------------------------
(***************************************************************************)
(* Twitter MCP server: the sliding-window RateLimiter and the ErrorHandler *)
(* of src/mcp_server/utils.py, and the FastAPI request path of             *)
(* src/mcp_server/mcp_server_main.py that uses them.                       *)
(*                                                                         *)
(* Time is the value time.time() returns, in whole seconds.  Between two   *)
(* reads it stays equal or grows (Tick); the limiter reads it once per     *)
(* allow_request call.                                                     *)
(***************************************************************************)
EXTENDS Integers, Sequences, FiniteSets, TLC

(***************************************************************************)
(* Bounds of the model.                                                    *)
(***************************************************************************)
MaxRpm == 2
MaxRph == 3
MaxTicks == 3
MaxLog == 3
NumRequests == 2
MaxWords == 2
MaxErrors == 2
MaxServerTicks == 2
MaxRuns == 3
MaxAttempts == 5

(***************************************************************************)
(* Program constants: the two retention periods of _clean_windows.         *)
(***************************************************************************)
MinuteSpan == 60
HourSpan == 3600

\* the longest text validate_tweet_text accepts
TweetLimit == 280

\* max_retries of TwitterClient._handle_rate_limit
MaxRetries == 3

\* Amounts by which the clock advances between two reads of time.time():
\* just inside, exactly at and just past each retention period.
Deltas == {1, 60, 61, 3541, 3600, 3601}

VARIABLES
    clock,          \* what time.time() returns now
    ticks,          \* how often the clock has advanced (bounds the model)
    rpm_limit,      \* RateLimiter.rpm_limit
    rph_limit,      \* RateLimiter.rph_limit
    minute_window,  \* RateLimiter.minute_window, oldest entry first
    hour_window,    \* RateLimiter.hour_window, oldest entry first
    result,         \* "True" or "False", what the last allow_request returned; "none" before
    log,            \* the first MaxLog allow_request calls since construction or
                    \* reset:
                    \* <<time of the call, value returned>>
    error_counts,   \* ErrorHandler.error_counts
    twitter_client, \* the global twitter_client: None, or the TwitterClient
                    \* object, named by the login request that built it
    authenticated,  \* TwitterClient._authenticated of each object
    cookie_file,    \* whether data/cookies.json exists
    pc,             \* where each HTTP request is
    kind,           \* the endpoint each HTTP request is for
    text,           \* the text field of the request body, for /tweets/create
    allowed,        \* what allow_request returned to the middleware, per request
    admit_at,       \* the time allow_request read for the request
    entered,        \* whether the endpoint function was called, per request
    client_calls,   \* how many TwitterClient methods the request has called
    attempts,       \* how often the TwitterClient method the request is in has
                    \* called the Twitter library
    exc,            \* the message of the exception raised to the request
    status,         \* the status code of the response (0: no response yet)
    body,           \* the content of the response
    error,          \* the exception last passed to the ErrorHandler by a direct
                    \* caller: its type name and its message
    category,       \* what the last direct categorize_error call returned
    record,         \* what the last direct format_error call returned
    formatted,      \* the categories of the records format_error returned
                    \* since the handler was built or reset, in call order
    stats,          \* the mapping the last get_error_stats call returned
    tweet,          \* the text a caller passes to validate_tweet_text, as runs
                    \* of one character
    verdict         \* what validate_tweet_text returned for it

limiter_vars == <<rpm_limit, rph_limit, minute_window, hour_window>>
session_vars == <<twitter_client, authenticated, cookie_file>>
request_vars == <<pc, kind, text, allowed, admit_at, entered, client_calls,
                  attempts, exc,
                  status, body>>
server_vars == <<error_counts, session_vars, request_vars>>
caller_vars == <<error, category, record, formatted, stats, tweet, verdict>>
vars == <<clock, ticks, rpm_limit, rph_limit, minute_window, hour_window,
          result, log, error_counts, twitter_client, authenticated,
          cookie_file, pc, kind, text, allowed, admit_at, entered, client_calls,
          exc, status, body, error, category, record, formatted, stats,
          tweet, verdict, attempts>>

\* the HTTP requests the server receives
Requests == 1..NumRequests

\* twitter_client: Optional[TwitterClient] = None
None == 0

(***************************************************************************)
(* collections.deque with maxlen                                           *)
(***************************************************************************)

\* deque.appendleft(x) in place of deque.append(x)
DequeAppendLeft(w, x, maxlen) ==
    IF maxlen = 0 THEN <<>>
    ELSE IF Len(w) >= maxlen THEN <<x>> \o SubSeq(w, 1, Len(w) - 1)
    ELSE <<x>> \o w

\* deque.append(x) on a deque built with maxlen: when the deque is full the
\* entry at the other end (the oldest) is dropped.
DequeAppend(w, x, maxlen) ==
    IF maxlen = 0 THEN <<>>
    ELSE IF Len(w) >= maxlen THEN Append(Tail(w), x)
    ELSE Append(w, x)

\* while w and w[0] < cutoff: w.popleft()
RECURSIVE PopStale(_, _)
PopStale(w, cutoff) ==
    IF w # <<>> /\ Head(w) < cutoff THEN PopStale(Tail(w), cutoff) ELSE w

(***************************************************************************)
(* RateLimiter                                                             *)
(***************************************************************************)

\* the minute window cleaned with <= in place of <: an entry exactly 60
\* seconds old is evicted
CleanMinute_Inclusive(w, now) == PopStale(w, now - MinuteSpan + 1)

\* _clean_windows(now), the minute window
CleanMinute(w, now) == PopStale(w, now - MinuteSpan)

\* the hour window cleaned with <= in place of <: an entry exactly 3600
\* seconds old is evicted
CleanHour_Inclusive(w, now) == PopStale(w, now - HourSpan + 1)

\* the hour window cleaned with the minute window's cutoff
CleanHour_MinuteCutoff(w, now) == PopStale(w, now - MinuteSpan)

\* _clean_windows(now), the hour window
CleanHour(w, now) == PopStale(w, now - HourSpan)

\* the first check with > in place of >=
MinuteExceeded_OffByOne(mw, rpm) == Len(mw) > rpm

\* the first check of allow_request, on the cleaned minute window
MinuteExceeded(mw, rpm) == Len(mw) >= rpm

\* the second check with > in place of >=
HourExceeded_OffByOne(hw, rph) == Len(hw) > rph

\* the second check of allow_request, on the cleaned hour window
HourExceeded(hw, rph) == Len(hw) >= rph

\* allow_request recording the timestamp before the checks
AllowRequest_RecordsFirst(mw, hw, rpm, rph, now) ==
    LET cm == CleanMinute(mw, now)
        ch == CleanHour(hw, now)
        am == DequeAppend(cm, now, rpm)
        ah == DequeAppend(ch, now, rph)
    IN  IF MinuteExceeded(cm, rpm) THEN [ok |-> FALSE, mw |-> am, hw |-> ah]
        ELSE IF HourExceeded(ch, rph) THEN [ok |-> FALSE, mw |-> am, hw |-> ah]
        ELSE [ok |-> TRUE, mw |-> am, hw |-> ah]

\* allow_request appending to the windows as they were before the eviction
AllowRequest_AppendsUncleaned(mw, hw, rpm, rph, now) ==
    LET cm == CleanMinute(mw, now)
        ch == CleanHour(hw, now)
    IN  IF MinuteExceeded(cm, rpm) THEN [ok |-> FALSE, mw |-> cm, hw |-> ch]
        ELSE IF HourExceeded(ch, rph) THEN [ok |-> FALSE, mw |-> cm, hw |-> ch]
        ELSE [ok |-> TRUE,
              mw |-> DequeAppend(mw, now, rpm),
              hw |-> DequeAppend(hw, now, rph)]

\* allow_request charging the hour window for a call the minute check denies
AllowRequest_ChargesDenied(mw, hw, rpm, rph, now) ==
    LET cm == CleanMinute(mw, now)
        ch == CleanHour(hw, now)
    IN  IF MinuteExceeded(cm, rpm)
        THEN [ok |-> FALSE, mw |-> cm, hw |-> DequeAppend(ch, now, rph)]
        ELSE IF HourExceeded(ch, rph) THEN [ok |-> FALSE, mw |-> cm, hw |-> ch]
        ELSE [ok |-> TRUE,
              mw |-> DequeAppend(cm, now, rpm),
              hw |-> DequeAppend(ch, now, rph)]

\* allow_request as a function of the limiter's state and the time it reads:
\* the value returned and the two windows it leaves.
AllowRequest(mw, hw, rpm, rph, now) ==
    LET cm == CleanMinute(mw, now)
        ch == CleanHour(hw, now)
    IN  IF MinuteExceeded(cm, rpm) THEN [ok |-> FALSE, mw |-> cm, hw |-> ch]
        ELSE IF HourExceeded(ch, rph) THEN [ok |-> FALSE, mw |-> cm, hw |-> ch]
        ELSE [ok |-> TRUE,
              mw |-> DequeAppend(cm, now, rpm),
              hw |-> DequeAppend(ch, now, rph)]

\* get_stats()
get_stats ==
    [requests_last_minute |-> Len(minute_window),
     requests_last_hour   |-> Len(hour_window),
     minute_limit         |-> rpm_limit,
     hour_limit           |-> rph_limit]

(***************************************************************************)
(* ErrorHandler.  A message, str(error), is its sequence of characters.    *)
(***************************************************************************)

UpperCase == <<"A", "B", "C", "D", "E", "F", "G", "H", "I", "J", "K", "L", "M",
               "N", "O", "P", "Q", "R", "S", "T", "U", "V", "W", "X", "Y", "Z">>
LowerCase == <<"a", "b", "c", "d", "e", "f", "g", "h", "i", "j", "k", "l", "m",
               "n", "o", "p", "q", "r", "s", "t", "u", "v", "w", "x", "y", "z">>

\* str.lower(), one character
LowerChar(c) ==
    IF \E i \in DOMAIN UpperCase : UpperCase[i] = c
    THEN LowerCase[CHOOSE i \in DOMAIN UpperCase : UpperCase[i] = c]
    ELSE c

\* str.lower()
Lower(m) == [i \in 1..Len(m) |-> LowerChar(m[i])]

\* sub in m
Contains(m, sub) ==
    \E i \in 1..(Len(m) - Len(sub) + 1) : SubSeq(m, i, i + Len(sub) - 1) = sub

\* the keywords of categorize_error
KwAuth == <<"a", "u", "t", "h">>
KwUnauthorized == <<"u", "n", "a", "u", "t", "h", "o", "r", "i", "z", "e", "d">>
KwRate == <<"r", "a", "t", "e">>
KwTooMany == <<"t", "o", "o", " ", "m", "a", "n", "y">>
KwNotFound == <<"n", "o", "t", " ", "f", "o", "u", "n", "d">>
Kw404 == <<"4", "0", "4">>
KwValidation == <<"v", "a", "l", "i", "d", "a", "t", "i", "o", "n">>
KwInvalid == <<"i", "n", "v", "a", "l", "i", "d">>
KwNetwork == <<"n", "e", "t", "w", "o", "r", "k">>
KwConnection == <<"c", "o", "n", "n", "e", "c", "t", "i", "o", "n">>
KwTwitter == <<"t", "w", "i", "t", "t", "e", "r">>

\* the keys of ERROR_CATEGORIES
Categories ==
    {"AUTH", "RATE_LIMIT", "NOT_FOUND", "VALIDATION", "NETWORK", "TWITTER",
     "INTERNAL"}

\* categorize_error with the RATE_LIMIT rule tested before the AUTH rule
categorize_error_RateFirst(m) ==
    LET error_str == Lower(m)
    IN  IF Contains(error_str, KwRate) \/ Contains(error_str, KwTooMany)
            THEN "RATE_LIMIT"
        ELSE IF Contains(error_str, KwAuth) \/ Contains(error_str, KwUnauthorized)
            THEN "AUTH"
        ELSE IF Contains(error_str, KwNotFound) \/ Contains(error_str, Kw404)
            THEN "NOT_FOUND"
        ELSE IF Contains(error_str, KwValidation) \/ Contains(error_str, KwInvalid)
            THEN "VALIDATION"
        ELSE IF Contains(error_str, KwNetwork) \/ Contains(error_str, KwConnection)
            THEN "NETWORK"
        ELSE IF Contains(error_str, KwTwitter)
            THEN "TWITTER"
        ELSE "INTERNAL"

\* categorize_error without its default: a message no rule matches gets a
\* category that is no key of ERROR_CATEGORIES
categorize_error_NoDefault(m) ==
    LET error_str == Lower(m)
    IN  IF Contains(error_str, KwAuth) \/ Contains(error_str, KwUnauthorized)
            THEN "AUTH"
        ELSE IF Contains(error_str, KwRate) \/ Contains(error_str, KwTooMany)
            THEN "RATE_LIMIT"
        ELSE IF Contains(error_str, KwNotFound) \/ Contains(error_str, Kw404)
            THEN "NOT_FOUND"
        ELSE IF Contains(error_str, KwValidation) \/ Contains(error_str, KwInvalid)
            THEN "VALIDATION"
        ELSE IF Contains(error_str, KwNetwork) \/ Contains(error_str, KwConnection)
            THEN "NETWORK"
        ELSE IF Contains(error_str, KwTwitter)
            THEN "TWITTER"
        ELSE "UNKNOWN"

\* categorize_error(error), on str(error)
categorize_error(m) ==
    LET error_str == Lower(m)
    IN  IF Contains(error_str, KwAuth) \/ Contains(error_str, KwUnauthorized)
            THEN "AUTH"
        ELSE IF Contains(error_str, KwRate) \/ Contains(error_str, KwTooMany)
            THEN "RATE_LIMIT"
        ELSE IF Contains(error_str, KwNotFound) \/ Contains(error_str, Kw404)
            THEN "NOT_FOUND"
        ELSE IF Contains(error_str, KwValidation) \/ Contains(error_str, KwInvalid)
            THEN "VALIDATION"
        ELSE IF Contains(error_str, KwNetwork) \/ Contains(error_str, KwConnection)
            THEN "NETWORK"
        ELSE IF Contains(error_str, KwTwitter)
            THEN "TWITTER"
        ELSE "INTERNAL"

\* self.error_counts[category] = 1 in place of += 1: a second failure of the
\* category is not counted
Counted_SetsOne(counts, m) ==
    [counts EXCEPT ![categorize_error(m)] = 1]

\* self.error_counts[category] += 1 of format_error(error)
Counted(counts, m) ==
    [counts EXCEPT ![categorize_error(m)] = @ + 1]

\* ERROR_CATEGORIES
ERROR_CATEGORIES ==
    [c \in Categories |->
        CASE c = "AUTH" -> "Authentication Error"
          [] c = "RATE_LIMIT" -> "Rate Limit Exceeded"
          [] c = "NOT_FOUND" -> "Resource Not Found"
          [] c = "VALIDATION" -> "Validation Error"
          [] c = "NETWORK" -> "Network Error"
          [] c = "TWITTER" -> "Twitter API Error"
          [] c = "INTERNAL" -> "Internal Server Error"]

\* format_error looking the description up under the type name in place of
\* the category
ErrorRecord_ByTypeName(e, now) ==
    LET cat == categorize_error(e.msg)
    IN  [error       |-> TRUE,
         category    |-> cat,
         type        |-> e.type,
         message     |-> e.msg,
         description |-> IF e.type \in DOMAIN ERROR_CATEGORIES
                         THEN ERROR_CATEGORIES[e.type] ELSE "Unknown Error",
         timestamp   |-> now]

\* the dictionary format_error(error) returns; e is the exception: type(error).__name__
\* and str(error); now is datetime.utcnow()
ErrorRecord(e, now) ==
    LET cat == categorize_error(e.msg)
    IN  [error       |-> TRUE,
         category    |-> cat,
         type        |-> e.type,
         message     |-> e.msg,
         description |-> IF cat \in DOMAIN ERROR_CATEGORIES
                         THEN ERROR_CATEGORIES[cat] ELSE "Unknown Error",
         timestamp   |-> now]

\* ErrorHandler.__init__ and reset_stats: {cat: 0 for cat in ERROR_CATEGORIES}
ZeroCounts == [c \in Categories |-> 0]

\* return self.error_counts, without .copy(): the caller holds the
\* handler's own dictionary
CountsReference(counts) == [live |-> TRUE, val |-> counts]

\* A mapping in the hands of a caller: its content, and whether it is the
\* very dictionary self.error_counts names (live) or one of its own.
\* self.error_counts.copy()
CountsCopy(counts) == [live |-> FALSE, val |-> counts]

\* words of the messages passed to the handler, in the cases str.lower() has
\* to fold; WGenerate holds "rate" and WAuthor holds "auth" inside a word
WUnauthorized == <<"U", "n", "a", "u", "t", "h", "o", "r", "i", "z", "e", "d">>
WAccess == <<"a", "c", "c", "e", "s", "s">>
WRate == <<"R", "a", "t", "e">>
WToo == <<"T", "o", "o">>
WMany == <<"m", "a", "n", "y">>
WNot == <<"n", "o", "t">>
WFound == <<"F", "o", "u", "n", "d">>
W404 == <<"4", "0", "4">>
WValidation == <<"v", "a", "l", "i", "d", "a", "t", "i", "o", "n">>
WInvalid == <<"I", "n", "v", "a", "l", "i", "d">>
WNetwork == <<"N", "e", "t", "w", "o", "r", "k">>
WConnection == <<"c", "o", "n", "n", "e", "c", "t", "i", "o", "n">>
WTwitter == <<"T", "w", "i", "t", "t", "e", "r">>
WGenerate == <<"g", "e", "n", "e", "r", "a", "t", "e">>
WAuthor == <<"A", "U", "T", "H", "O", "R">>
WBroke == <<"b", "r", "o", "k", "e">>

Words == {WUnauthorized, WAccess, WRate, WToo, WMany, WNot, WFound, W404,
          WValidation, WInvalid, WNetwork, WConnection, WTwitter, WGenerate,
          WAuthor, WBroke}

\* " ".join(ws)
RECURSIVE Join(_)
Join(ws) ==
    IF ws = <<>> THEN <<>>
    ELSE IF Len(ws) = 1 THEN ws[1]
    ELSE ws[1] \o <<" ">> \o Join(Tail(ws))

\* the messages of at most n words; the message of no word is the empty string
MessagesOf(n) ==
    UNION {{Join(ws) : ws \in [1..k -> Words]} : k \in 0..n}

\* messages of the exceptions the model raises
\* "Unauthorized access"
MsgUnauthorized ==
    <<"U", "n", "a", "u", "t", "h", "o", "r", "i", "z", "e", "d", " ", "a", "c", "c", "e", "s", "s">>
\* "Rate limit exceeded"
MsgRateLimit ==
    <<"R", "a", "t", "e", " ", "l", "i", "m", "i", "t", " ", "e", "x", "c", "e", "e", "d", "e", "d">>
\* "Invalid credentials"
MsgInvalid ==
    <<"I", "n", "v", "a", "l", "i", "d", " ", "c", "r", "e", "d", "e", "n", "t", "i", "a", "l", "s">>
\* "[Errno 13] Permission denied"
MsgPermission ==
    <<"[", "E", "r", "r", "n", "o", " ", "1", "3", "]", " ", "P", "e", "r", "m", "i", "s", "s", "i", "o", "n", " ", "d", "e", "n", "i", "e", "d">>

\* what a TwitterClient method may raise to an endpoint
ClientErrors == {MsgRateLimit}

\* what TwitterClient.login may raise to the login endpoint
LoginErrors == {MsgInvalid}

\* what Path.unlink may raise in TwitterClient.logout
UnlinkErrors == {MsgPermission}

\* the value a call returned, as the caller sees it
Returned(ok) == IF ok THEN "True" ELSE "False"

\* the caller's record of the calls: the first MaxLog of them
Logged(l, t, ok) == IF Len(l) < MaxLog THEN Append(l, <<t, ok>>) ELSE l

\* RateLimiter(requests_per_minute, requests_per_hour)
LimiterInit ==
    /\ clock = 0
    /\ ticks = 0
    /\ rpm_limit \in 1..MaxRpm
    /\ rph_limit \in 1..MaxRph
    /\ minute_window = <<>>
    /\ hour_window = <<>>
    /\ result = "none"
    /\ log = <<>>

\* the module-level state of mcp_server_main: no client, a new ErrorHandler,
\* no request received yet
ServerStart ==
    /\ error_counts = [c \in Categories |-> 0]
    /\ twitter_client = None
    /\ authenticated = [o \in Requests |-> FALSE]
    /\ pc = [r \in Requests |-> "idle"]
    /\ kind = [r \in Requests |-> "none"]
    /\ text = [r \in Requests |-> <<>>]
    /\ allowed = [r \in Requests |-> "none"]
    /\ admit_at = [r \in Requests |-> 0]
    /\ entered = [r \in Requests |-> FALSE]
    /\ client_calls = [r \in Requests |-> 0]
    /\ attempts = [r \in Requests |-> 0]
    /\ exc = [r \in Requests |-> <<>>]
    /\ status = [r \in Requests |-> 0]
    /\ body = [r \in Requests |-> "none"]

\* nothing has called the handler directly yet
NoError == [type |-> "none", msg |-> <<>>]
NoRecord == [error |-> FALSE]
NoStats == [live |-> FALSE, val |-> [c \in {} |-> 0]]
NoVerdict == [called |-> FALSE]

CallerStart ==
    /\ error = NoError
    /\ category = "none"
    /\ record = NoRecord
    /\ formatted = <<>>
    /\ stats = NoStats
    /\ tweet = <<>>
    /\ verdict = NoVerdict

\* a limiter on its own, as the tests build it
Init == LimiterInit /\ ServerStart /\ CallerStart /\ cookie_file = FALSE

\* the server process at startup: requests_per_hour is left at its default,
\* above requests_per_minute, and data/cookies.json may be left from an
\* earlier run
ServerInit ==
    /\ LimiterInit
    /\ rph_limit = MaxRph
    /\ ServerStart
    /\ CallerStart
    /\ cookie_file \in BOOLEAN

\* time passes between two calls
Tick ==
    /\ ticks < MaxTicks
    /\ \E d \in Deltas : clock' = clock + d
    /\ ticks' = ticks + 1
    /\ UNCHANGED <<limiter_vars, result, log, server_vars, caller_vars>>

\* await limiter.allow_request(), called directly
allow_request ==
    LET r == AllowRequest(minute_window, hour_window, rpm_limit, rph_limit, clock)
    IN  /\ minute_window' = r.mw
        /\ hour_window' = r.hw
        /\ result' = Returned(r.ok)
        /\ log' = Logged(log, clock, r.ok)
        /\ UNCHANGED <<clock, ticks, rpm_limit, rph_limit, server_vars, caller_vars>>

\* reset() that clears the minute window and leaves the hour window
reset_MinuteOnly ==
    /\ minute_window' = <<>>
    /\ log' = <<>>
    /\ UNCHANGED <<clock, ticks, rpm_limit, rph_limit, hour_window, result,
                   server_vars, caller_vars>>

\* reset() that clears the hour window and leaves the minute window
reset_HourOnly ==
    /\ hour_window' = <<>>
    /\ log' = <<>>
    /\ UNCHANGED <<clock, ticks, rpm_limit, rph_limit, minute_window, result,
                   server_vars, caller_vars>>

\* limiter.reset()
reset ==
    /\ minute_window' = <<>>
    /\ hour_window' = <<>>
    /\ log' = <<>>
    /\ UNCHANGED <<clock, ticks, rpm_limit, rph_limit, result, server_vars,
                   caller_vars>>

Next == Tick \/ allow_request \/ reset

Spec == Init /\ [][Next]_vars

(***************************************************************************)
(* An ErrorHandler on its own, as the tests build it and call it.          *)
(***************************************************************************)

\* type(error).__name__ of the exceptions passed
ErrorTypes == {"Exception", "ValueError"}

\* the exceptions passed to categorize_error
Errors == [type : ErrorTypes, msg : MessagesOf(MaxWords)]

\* the exceptions passed to format_error: those of the tests and of the
\* client, the empty message, and one more for each category
FormatErrors ==
    {[type |-> "Exception", msg |-> MsgUnauthorized],
     [type |-> "Exception", msg |-> MsgRateLimit],
     [type |-> "ValueError", msg |-> MsgInvalid],
     [type |-> "Exception", msg |-> <<>>],
     [type |-> "Exception", msg |-> WBroke],
     [type |-> "Exception", msg |-> W404],
     [type |-> "Exception", msg |-> WConnection],
     [type |-> "Exception", msg |-> WTwitter],
     [type |-> "ValueError", msg |-> WAuthor]}

\* ErrorHandler()
HandlerInit ==
    /\ LimiterInit
    /\ rpm_limit = MaxRpm
    /\ rph_limit = MaxRph
    /\ ServerStart
    /\ CallerStart
    /\ cookie_file = FALSE

handler_frame == <<clock, ticks, limiter_vars, result, log, session_vars,
                   request_vars, tweet, verdict>>

\* an ErrorHandler and the exception a caller is about to pass to it
CategorizeInit ==
    /\ LimiterInit
    /\ rpm_limit = MaxRpm
    /\ rph_limit = MaxRph
    /\ ServerStart
    /\ cookie_file = FALSE
    /\ error \in Errors
    /\ category = "none"
    /\ record = NoRecord
    /\ formatted = <<>>
    /\ stats = NoStats
    /\ tweet = <<>>
    /\ verdict = NoVerdict

\* category = handler.categorize_error(error)
categorize ==
    /\ category = "none"
    /\ category' = categorize_error(error.msg)
    /\ UNCHANGED <<handler_frame, error_counts, error, record, formatted, stats>>

\* handler.format_error(error): error_counts is updated in place, so a
\* caller that holds that very dictionary sees the update
format_error(e) ==
    /\ Len(formatted) < MaxErrors
    /\ error' = e
    /\ error_counts' = Counted(error_counts, e.msg)
    /\ record' = ErrorRecord(e, clock)
    /\ formatted' = Append(formatted, record'.category)
    /\ stats' = IF stats.live THEN [stats EXCEPT !.val = error_counts']
                 ELSE stats
    /\ UNCHANGED <<handler_frame, category>>

\* reset_stats that zeroes only the counter of the last failure's category
reset_stats_LastCategoryOnly ==
    /\ error_counts' = IF record = NoRecord THEN error_counts
                       ELSE [error_counts EXCEPT ![record.category] = 0]
    /\ formatted' = <<>>
    /\ stats' = [stats EXCEPT !.live = FALSE]
    /\ UNCHANGED <<handler_frame, error, category, record>>

\* handler.reset_stats(): self.error_counts is bound to a new dictionary, the
\* old one stays with whoever holds it
reset_stats ==
    /\ error_counts' = ZeroCounts
    /\ formatted' = <<>>
    /\ stats' = [stats EXCEPT !.live = FALSE]
    /\ UNCHANGED <<handler_frame, error, category, record>>

\* stats = handler.get_error_stats()
get_error_stats ==
    /\ stats' = CountsCopy(error_counts)
    /\ UNCHANGED <<handler_frame, error_counts, error, category, record,
                   formatted>>

\* stats[c] = 0, by the caller that holds the mapping
modify_stats(c) ==
    /\ c \in DOMAIN stats.val
    /\ stats.val[c] > 0
    /\ stats' = [stats EXCEPT !.val[c] = 0]
    /\ error_counts' = IF stats.live THEN stats'.val ELSE error_counts
    /\ UNCHANGED <<handler_frame, error, category, record, formatted>>

\* the caller classifies the exception, then has it formatted
CategorizeNext ==
    \/ categorize
    \/ (category # "none" /\ format_error(error))

CategorizeSpec == CategorizeInit /\ [][CategorizeNext]_vars

HandlerNext ==
    \/ \E e \in FormatErrors : format_error(e)
    \/ reset_stats
    \/ get_error_stats
    \/ \E c \in Categories : modify_stats(c)

HandlerSpec == HandlerInit /\ [][HandlerNext]_vars

(***************************************************************************)
(* validate_tweet_text.  A text is a sequence of runs, each one character  *)
(* repeated n >= 1 times, so that texts around 280 characters can be       *)
(* written down.                                                           *)
(***************************************************************************)

\* the characters str.strip() removes, among those of the texts
Whitespace == {" ", "\n"}

\* the characters of the texts: two kinds of whitespace and a letter
TweetChars == Whitespace \cup {"x"}

\* the lengths of the runs: short, and just below, at and above the limit
RunLengths == {1, TweetLimit - 1, TweetLimit, TweetLimit + 1}

\* the texts passed to validate_tweet_text: at most MaxRuns runs; the text
\* of no run is the empty string
Texts == UNION {[1..k -> [ch : TweetChars, n : RunLengths]] : k \in 0..MaxRuns}

\* len(text)
RECURSIVE TextLen(_)
TextLen(t) == IF t = <<>> THEN 0 ELSE Head(t).n + TextLen(Tail(t))

\* text.lstrip()
RECURSIVE LStrip(_)
LStrip(t) ==
    IF t # <<>> /\ Head(t).ch \in Whitespace THEN LStrip(Tail(t)) ELSE t

\* text.rstrip()
RECURSIVE RStrip(_)
RStrip(t) ==
    IF t # <<>> /\ t[Len(t)].ch \in Whitespace
    THEN RStrip(SubSeq(t, 1, Len(t) - 1)) ELSE t

\* text.strip()
Strip(t) == RStrip(LStrip(t))

\* str(n) for n >= 0, as in the f-string of the message
DigitChars == <<"0", "1", "2", "3", "4", "5", "6", "7", "8", "9">>
RECURSIVE Decimal(_)
Decimal(n) ==
    IF n < 10 THEN <<DigitChars[n + 1]>>
    ELSE Decimal(n \div 10) \o <<DigitChars[(n % 10) + 1]>>

\* "Tweet text cannot be empty"
MsgEmptyText ==
    <<"T", "w", "e", "e", "t", " ", "t", "e", "x", "t", " ", "c", "a", "n", "n", "o", "t", " ", "b", "e", " ", "e", "m", "p", "t", "y">>

\* f"Tweet too long: {len(text)}/280 characters"
MsgTooLong(n) ==
    <<"T", "w", "e", "e", "t", " ", "t", "o", "o", " ", "l", "o", "n", "g", ":", " ">>
    \o Decimal(n) \o
    <<"/", "2", "8", "0", " ", "c", "h", "a", "r", "a", "c", "t", "e", "r", "s">>

\* validate_tweet_text with the length tested before the emptiness
validate_tweet_text_LengthFirst(t) ==
    IF TextLen(t) > TweetLimit
    THEN [called |-> TRUE, is_valid |-> FALSE, message |-> MsgTooLong(TextLen(t))]
    ELSE IF t = <<>> \/ Strip(t) = <<>>
    THEN [called |-> TRUE, is_valid |-> FALSE, message |-> MsgEmptyText]
    ELSE [called |-> TRUE, is_valid |-> TRUE, message |-> <<>>]

\* validate_tweet_text(text): the pair (is_valid, error_message)
validate_tweet_text(t) ==
    IF t = <<>> \/ Strip(t) = <<>>
    THEN [called |-> TRUE, is_valid |-> FALSE, message |-> MsgEmptyText]
    ELSE IF TextLen(t) > TweetLimit
    THEN [called |-> TRUE, is_valid |-> FALSE, message |-> MsgTooLong(TextLen(t))]
    ELSE [called |-> TRUE, is_valid |-> TRUE, message |-> <<>>]

\* a text a caller is about to validate
ValidateInit ==
    /\ LimiterInit
    /\ rpm_limit = MaxRpm
    /\ rph_limit = MaxRph
    /\ ServerStart
    /\ cookie_file = FALSE
    /\ error = NoError
    /\ category = "none"
    /\ record = NoRecord
    /\ formatted = <<>>
    /\ stats = NoStats
    /\ tweet \in Texts
    /\ verdict = NoVerdict

\* is_valid, message = validate_tweet_text(text)
validate ==
    /\ ~verdict.called
    /\ verdict' = validate_tweet_text(tweet)
    /\ UNCHANGED <<clock, ticks, limiter_vars, result, log, server_vars, error,
                   category, record, formatted, stats, tweet>>

ValidateNext == validate

ValidateSpec == ValidateInit /\ [][ValidateNext]_vars

(***************************************************************************)
(* The HTTP server.  Every request is a coroutine on the one event loop:   *)
(* it runs without interruption up to an await that suspends it (a call    *)
(* of the Twitter library, call_next), so each action below is the code    *)
(* between two such awaits.  allow_request and TwitterClient.logout hold   *)
(* no such await.                                                          *)
(***************************************************************************)

\* amounts by which the clock advances between two steps of the server
ServerDeltas == {61}

\* the endpoints: /auth/login, /auth/logout, and the endpoints that call one
\* TwitterClient operation (/tweets/..., /users/..., /dm/..., /trends/...,
\* /timeline/home, /notifications)
Endpoints == {"login", "logout", "op"}

\* the response to request r
Respond(r, code, content) ==
    /\ status' = [status EXCEPT ![r] = code]
    /\ body' = [body EXCEPT ![r] = content]
    /\ pc' = [pc EXCEPT ![r] = "done"]

\* time passes between two steps of the server
ServerTick ==
    /\ ticks < MaxServerTicks
    /\ \E d \in ServerDeltas : clock' = clock + d
    /\ ticks' = ticks + 1
    /\ UNCHANGED <<limiter_vars, result, log, server_vars, caller_vars>>

\* "Test"
MsgTest == <<"T", "e", "s", "t">>

\* the text of a /tweets/create request: TweetRequest.text is any str, the
\* empty one too
TweetTexts == {<<>>, MsgTest}

\* a request for endpoint k arrives; the requests are numbered in the order
\* of their arrival
Receive(r, k) ==
    /\ pc[r] = "idle"
    /\ \A q \in Requests : q < r => pc[q] # "idle"
    /\ pc' = [pc EXCEPT ![r] = "middleware"]
    /\ kind' = [kind EXCEPT ![r] = k]
    /\ UNCHANGED <<clock, ticks, limiter_vars, result, log, caller_vars, attempts,
                   error_counts, session_vars, text, allowed, admit_at,
                   entered, client_calls, exc, status, body>>

\* rate_limit_middleware with a suspension between the checks of
\* allow_request and its appends: the call returns True after the appends
rate_limit_middleware_Racy(r) ==
    \/ /\ pc[r] = "middleware"
       /\ LET cm == CleanMinute(minute_window, clock)
              ch == CleanHour(hour_window, clock)
              ok == ~MinuteExceeded(cm, rpm_limit) /\ ~HourExceeded(ch, rph_limit)
          IN  /\ minute_window' = cm
              /\ hour_window' = ch
              /\ admit_at' = [admit_at EXCEPT ![r] = clock]
              /\ IF ok
                 THEN /\ pc' = [pc EXCEPT ![r] = "appending"]
                      /\ UNCHANGED <<allowed, status, body>>
                 ELSE /\ allowed' = [allowed EXCEPT ![r] = "False"]
                      /\ Respond(r, 429, "rate_limit")
       /\ UNCHANGED <<clock, ticks, rpm_limit, rph_limit, result, log, caller_vars, attempts,
                      error_counts, session_vars, kind, text, entered, client_calls,
                      exc>>
    \/ /\ pc[r] = "appending"
       /\ minute_window' = DequeAppend(minute_window, admit_at[r], rpm_limit)
       /\ hour_window' = DequeAppend(hour_window, admit_at[r], rph_limit)
       /\ allowed' = [allowed EXCEPT ![r] = "True"]
       /\ pc' = [pc EXCEPT ![r] = "endpoint"]
       /\ UNCHANGED <<clock, ticks, rpm_limit, rph_limit, result, log, caller_vars, attempts,
                      error_counts, session_vars, kind, text, admit_at, entered,
                      client_calls, exc, status, body>>

\* rate_limit_middleware that passes the request on whatever allow_request
\* returned
rate_limit_middleware_NoReturn(r) ==
    /\ pc[r] = "middleware"
    /\ LET a == AllowRequest(minute_window, hour_window, rpm_limit, rph_limit,
                             clock)
       IN  /\ minute_window' = a.mw
           /\ hour_window' = a.hw
           /\ allowed' = [allowed EXCEPT ![r] = Returned(a.ok)]
           /\ admit_at' = [admit_at EXCEPT ![r] = clock]
           /\ pc' = [pc EXCEPT ![r] = "endpoint"]
           /\ UNCHANGED <<status, body>>
    /\ UNCHANGED <<clock, ticks, rpm_limit, rph_limit, result, log, caller_vars, attempts,
                   error_counts, session_vars, kind, text, entered, client_calls,
                   exc>>

\* rate_limit_middleware: await rate_limiter.allow_request(), then the 429
\* response or call_next
rate_limit_middleware(r) ==
    /\ pc[r] = "middleware"
    /\ LET a == AllowRequest(minute_window, hour_window, rpm_limit, rph_limit,
                             clock)
       IN  /\ minute_window' = a.mw
           /\ hour_window' = a.hw
           /\ allowed' = [allowed EXCEPT ![r] = Returned(a.ok)]
           /\ admit_at' = [admit_at EXCEPT ![r] = clock]
           /\ IF a.ok
              THEN /\ pc' = [pc EXCEPT ![r] = "endpoint"]
                   /\ UNCHANGED <<status, body>>
              ELSE Respond(r, 429, "rate_limit")
    /\ UNCHANGED <<clock, ticks, rpm_limit, rph_limit, result, log, caller_vars, attempts,
                   error_counts, session_vars, kind, text, entered, client_calls,
                   exc>>

\* login, up to the first await of the Twitter library: the global is set
\* to a new TwitterClient, whose login loads the saved cookies if there are
\* any
login(r) ==
    /\ pc[r] = "endpoint" /\ kind[r] = "login"
    /\ entered' = [entered EXCEPT ![r] = TRUE]
    /\ twitter_client' = r
    /\ client_calls' = [client_calls EXCEPT ![r] = @ + 1]
    /\ pc' = [pc EXCEPT ![r] = IF cookie_file THEN "verify_cookies"
                                ELSE "client_login"]
    /\ UNCHANGED <<clock, ticks, limiter_vars, result, log, caller_vars, attempts, error_counts,
                   authenticated, cookie_file, kind, text, allowed, admit_at, exc,
                   status, body>>

\* _verify_cookies returns: the cookies are valid and login is done, or they
\* are not and login goes on to the full login
verify_cookies(r) ==
    /\ pc[r] = "verify_cookies"
    /\ \/ /\ authenticated' = [authenticated EXCEPT ![r] = TRUE]
          /\ Respond(r, 200, "success")
       \/ /\ pc' = [pc EXCEPT ![r] = "client_login"]
          /\ UNCHANGED <<authenticated, status, body>>
    /\ UNCHANGED <<clock, ticks, limiter_vars, result, log, caller_vars, attempts, error_counts,
                   twitter_client, cookie_file, kind, text, allowed, admit_at,
                   entered, client_calls, exc>>

\* self.client.login returns and the cookies are saved, or it raises and
\* the endpoint answers 401 with the message
client_login(r) ==
    /\ pc[r] = "client_login"
    /\ \/ /\ cookie_file' = TRUE
          /\ authenticated' = [authenticated EXCEPT ![r] = TRUE]
          /\ Respond(r, 200, "success")
          /\ UNCHANGED exc
       \/ \E m \in LoginErrors :
             /\ exc' = [exc EXCEPT ![r] = m]
             /\ Respond(r, 401, "detail")
             /\ UNCHANGED <<cookie_file, authenticated>>
    /\ UNCHANGED <<clock, ticks, limiter_vars, result, log, caller_vars, attempts, error_counts,
                   twitter_client, kind, text, allowed, admit_at, entered,
                   client_calls>>

\* global_exception_handler with a suspension inside
\* self.error_counts[category] += 1, between the load of the counter and
\* the store of the sum; the coroutine's position holds the loaded value
global_exception_handler_Racy(r) ==
    LET loaded == <<"loaded0", "loaded1", "loaded2", "loaded3", "loaded4">>
        cat == categorize_error(exc[r])
    IN  /\ \/ /\ pc[r] = "unhandled"
              /\ pc' = [pc EXCEPT ![r] = loaded[error_counts[cat] + 1]]
              /\ UNCHANGED <<error_counts, status, body>>
           \/ \E i \in DOMAIN loaded :
                 /\ pc[r] = loaded[i]
                 /\ error_counts' = [error_counts EXCEPT ![cat] = (i - 1) + 1]
                 /\ Respond(r, 500, "error_record")
        /\ UNCHANGED <<clock, ticks, limiter_vars, result, log, caller_vars, attempts,
                       session_vars, kind, text, allowed, admit_at, entered,
                       client_calls, exc>>

\* global_exception_handler: the response to an exception no endpoint
\* caught, once it has come up through call_next; format_error holds no
\* await
global_exception_handler(r) ==
    /\ pc[r] = "unhandled"
    /\ error_counts' = Counted(error_counts, exc[r])
    /\ Respond(r, 500, "error_record")
    /\ UNCHANGED <<clock, ticks, limiter_vars, result, log, caller_vars, attempts,
                   session_vars, kind, text, allowed, admit_at, entered,
                   client_calls, exc>>

\* auth_status: what GET /auth/status reports; has_cookies() is asked of the
\* client only, so without a client cookies_exist is False whatever is on
\* disk
auth_status ==
    [authenticated |-> twitter_client # None /\ authenticated[twitter_client],
     cookies_exist |-> IF twitter_client # None THEN cookie_file ELSE FALSE]

\* logout: with a client, TwitterClient.logout (which may fail to unlink
\* the cookie file) and then the global set to None
logout(r) ==
    /\ pc[r] = "endpoint" /\ kind[r] = "logout"
    /\ entered' = [entered EXCEPT ![r] = TRUE]
    /\ IF twitter_client = None
       THEN /\ Respond(r, 200, "success")
            /\ UNCHANGED <<session_vars, client_calls, exc>>
       ELSE /\ client_calls' = [client_calls EXCEPT ![r] = @ + 1]
            /\ authenticated' = [authenticated EXCEPT ![twitter_client] = FALSE]
            /\ \/ /\ cookie_file' = FALSE
                  /\ twitter_client' = None
                  /\ Respond(r, 200, "success")
                  /\ UNCHANGED exc
               \/ /\ cookie_file
                  /\ \E m \in UnlinkErrors : exc' = [exc EXCEPT ![r] = m]
                  /\ pc' = [pc EXCEPT ![r] = "unhandled"]
                  /\ UNCHANGED <<cookie_file, twitter_client, status, body>>
    /\ UNCHANGED <<clock, ticks, limiter_vars, result, log, caller_vars, attempts,
                   error_counts, kind, text, allowed, admit_at>>

\* an operation endpoint, up to its await of the TwitterClient method: the
\* body is parsed into the request model (for /tweets/create, TweetRequest
\* with its text), then 401 when the global is None
operation(r) ==
    /\ pc[r] = "endpoint" /\ kind[r] = "op"
    /\ entered' = [entered EXCEPT ![r] = TRUE]
    /\ \E t \in TweetTexts : text' = [text EXCEPT ![r] = t]
    /\ IF twitter_client = None
       THEN /\ Respond(r, 401, "detail")
            /\ UNCHANGED client_calls
       ELSE /\ client_calls' = [client_calls EXCEPT ![r] = @ + 1]
            /\ pc' = [pc EXCEPT ![r] = "client_op"]
            /\ UNCHANGED <<status, body>>
    /\ UNCHANGED <<clock, ticks, limiter_vars, result, log, caller_vars, attempts,
                   error_counts, session_vars, kind, allowed, admit_at, exc>>

\* the TwitterClient method returns: the success response
operation_returns(r) ==
    /\ pc[r] = "client_op"
    /\ Respond(r, 200, "success")
    /\ UNCHANGED <<clock, ticks, limiter_vars, result, log, caller_vars, attempts, error_counts,
                   session_vars, kind, text, allowed, admit_at, entered,
                   client_calls, exc>>

\* the TwitterClient method raises: except Exception as e:
\* raise HTTPException(status_code=500, detail=str(e))
operation_raises(r) ==
    /\ pc[r] = "client_op"
    /\ \E m \in ClientErrors : exc' = [exc EXCEPT ![r] = m]
    /\ Respond(r, 500, "detail")
    /\ UNCHANGED <<clock, ticks, limiter_vars, result, log, caller_vars, attempts, error_counts,
                   session_vars, kind, text, allowed, admit_at, entered,
                   client_calls>>

ServerNext ==
    \/ ServerTick
    \/ \E r \in Requests :
        \/ \E k \in Endpoints : Receive(r, k)
        \/ rate_limit_middleware(r)
        \/ login(r)
        \/ verify_cookies(r)
        \/ client_login(r)
        \/ logout(r)
        \/ global_exception_handler(r)
        \/ operation(r)
        \/ operation_returns(r)
        \/ operation_raises(r)

ServerSpec == ServerInit /\ [][ServerNext]_vars

(***************************************************************************)
(* The exception path of the server on its own: requests whose endpoint    *)
(* raised an exception that no endpoint caught, and the one ErrorHandler   *)
(* that global_exception_handler calls for each of them.                   *)
(***************************************************************************)

\* the messages of the exceptions that escape an endpoint
UnhandledErrors == {e.msg : e \in FormatErrors} \cup UnlinkErrors

\* request r arrives and its endpoint raises m; the requests are numbered
\* in the order of their arrival
endpoint_raises(r, m) ==
    /\ pc[r] = "idle"
    /\ \A q \in Requests : q < r => pc[q] # "idle"
    /\ pc' = [pc EXCEPT ![r] = "unhandled"]
    /\ entered' = [entered EXCEPT ![r] = TRUE]
    /\ exc' = [exc EXCEPT ![r] = m]
    /\ UNCHANGED <<clock, ticks, limiter_vars, result, log, caller_vars, attempts,
                   error_counts, session_vars, kind, text, allowed, admit_at,
                   client_calls, status, body>>

ExceptionNext ==
    \E r \in Requests :
        \/ \E m \in UnhandledErrors : endpoint_raises(r, m)
        \/ global_exception_handler(r)

ExceptionSpec == HandlerInit /\ [][ExceptionNext]_vars

(***************************************************************************)
(* A TwitterClient method that calls the Twitter library (create_tweet,    *)
(* search_tweets), called on its own: the library call returns, raises     *)
(* TooManyRequests, or raises something else.                              *)
(***************************************************************************)

\* the methods that retry on TooManyRequests
RetryingMethods == {"create_tweet", "search_tweets"}

\* "Max retries exceeded"
MsgMaxRetries ==
    <<"M", "a", "x", " ", "r", "e", "t", "r", "i", "e", "s", " ", "e", "x", "c", "e", "e", "d", "e", "d">>

\* _handle_rate_limit(retry_count, max_retries): raise TooManyRequests, or
\* sleep 2 ** retry_count * 60 seconds and return
HandleRateLimit(retry_count, max_retries) ==
    IF retry_count >= max_retries THEN "raise" ELSE "sleep"

\* caller r calls method k of the client, which calls the library; the
\* callers are numbered in the order of their calls
call_method(r, k) ==
    /\ pc[r] = "idle"
    /\ \A q \in Requests : q < r => pc[q] # "idle"
    /\ kind' = [kind EXCEPT ![r] = k]
    /\ client_calls' = [client_calls EXCEPT ![r] = @ + 1]
    /\ attempts' = [attempts EXCEPT ![r] = 1]
    /\ pc' = [pc EXCEPT ![r] = "library_call"]
    /\ UNCHANGED <<clock, ticks, limiter_vars, result, log, caller_vars,
                   error_counts, session_vars, text, allowed, admit_at,
                   entered, exc, status, body>>

\* the library call returns and the method returns its result
library_returns(r) ==
    /\ pc[r] = "library_call"
    /\ pc' = [pc EXCEPT ![r] = "returned"]
    /\ UNCHANGED <<clock, ticks, limiter_vars, result, log, caller_vars,
                   error_counts, session_vars, kind, text, allowed, admit_at,
                   entered, client_calls, attempts, exc, status, body>>

\* the library call raises an exception other than TooManyRequests:
\* except Exception: raise
library_raises(r) ==
    /\ pc[r] = "library_call"
    /\ \E m \in ClientErrors : exc' = [exc EXCEPT ![r] = m]
    /\ pc' = [pc EXCEPT ![r] = "raised"]
    /\ UNCHANGED <<clock, ticks, limiter_vars, result, log, caller_vars,
                   error_counts, session_vars, kind, text, allowed, admit_at,
                   entered, client_calls, attempts, status, body>>

\* the library call raises TooManyRequests
library_raises_too_many(r) ==
    /\ pc[r] = "library_call"
    /\ attempts[r] < MaxAttempts
    /\ pc' = [pc EXCEPT ![r] = "rate_limited"]
    /\ UNCHANGED <<clock, ticks, limiter_vars, result, log, caller_vars,
                   error_counts, session_vars, kind, text, allowed, admit_at,
                   entered, client_calls, attempts, exc, status, body>>

\* except TooManyRequests: await self._handle_rate_limit(), called without
\* arguments, so with retry_count = 0; then the method calls itself, and so
\* the library, again
handle_rate_limit(r) ==
    /\ pc[r] = "rate_limited"
    /\ IF HandleRateLimit(0, MaxRetries) = "raise"
       THEN /\ exc' = [exc EXCEPT ![r] = MsgMaxRetries]
            /\ pc' = [pc EXCEPT ![r] = "raised"]
            /\ UNCHANGED attempts
       ELSE /\ attempts' = [attempts EXCEPT ![r] = @ + 1]
            /\ pc' = [pc EXCEPT ![r] = "library_call"]
            /\ UNCHANGED exc
    /\ UNCHANGED <<clock, ticks, limiter_vars, result, log, caller_vars,
                   error_counts, session_vars, kind, text, allowed, admit_at,
                   entered, client_calls, status, body>>

RetryNext ==
    \E r \in Requests :
        \/ \E k \in RetryingMethods : call_method(r, k)
        \/ library_returns(r)
        \/ library_raises(r)
        \/ library_raises_too_many(r)
        \/ handle_rate_limit(r)

RetrySpec == HandlerInit /\ [][RetryNext]_vars

(***************************************************************************)
(* Vocabulary of the claims                                                *)
(***************************************************************************)

\* the entries of window w that are not stale at time now: at most span old
Fresh(w, now, span) == SelectSeq(w, LAMBDA t : t >= now - span)

\* a sequence of timestamps is in ascending order
Sorted(w) == \A i, j \in 1..Len(w) : i <= j => w[i] <= w[j]

\* the times of the admitted calls among the logged ones, in call order
RECURSIVE AdmittedTimes(_)
AdmittedTimes(l) ==
    IF l = <<>> THEN <<>>
    ELSE IF Head(l)[2] THEN <<Head(l)[1]>> \o AdmittedTimes(Tail(l))
    ELSE AdmittedTimes(Tail(l))

\* the step is an allow_request call that returned False / True
Denied == allow_request /\ result' = "False"
Admitted == allow_request /\ result' = "True"

(***************************************************************************)
(* C1: a call to allow_request that returns False leaves minute_window and *)
(* hour_window exactly as they were, so get_stats() is the same before and *)
(* after any denied call.  (The claim as stated: the code evicts first.)   *)
(***************************************************************************)
C1_DeniedCallChangesNothing ==
    [][Denied => /\ minute_window' = minute_window
                 /\ hour_window' = hour_window
                 /\ get_stats' = get_stats]_vars

(***************************************************************************)
(* C1, amended: a denied call records no timestamp.  It leaves in each     *)
(* window exactly the entries that are not stale at the time of the call,  *)
(* in their order, so the counts of get_stats() never grow, the limits     *)
(* stay, and get_stats() is unchanged whenever no entry was stale.         *)
(***************************************************************************)
C1_DeniedCallOnlyEvicts ==
    [][Denied => /\ minute_window' = Fresh(minute_window, clock, MinuteSpan)
                 /\ hour_window' = Fresh(hour_window, clock, HourSpan)
                 /\ get_stats'.requests_last_minute <= get_stats.requests_last_minute
                 /\ get_stats'.requests_last_hour <= get_stats.requests_last_hour
                 /\ get_stats'.minute_limit = get_stats.minute_limit
                 /\ get_stats'.hour_limit = get_stats.hour_limit
                 /\ (/\ minute_window = Fresh(minute_window, clock, MinuteSpan)
                     /\ hour_window = Fresh(hour_window, clock, HourSpan)
                     => get_stats' = get_stats)]_vars

\* two calls were admitted, the third was denied, and the denied call left
\* the minute window empty: it evicted what the admitted calls recorded
C1_Witness ==
    /\ result = "False"
    /\ Len(log) = 3
    /\ log[1][2] /\ log[2][2] /\ ~log[3][2]
    /\ log[3][1] = clock
    /\ minute_window = <<>>
    /\ hour_window # <<>>

(***************************************************************************)
(* C2: for every configuration with requests_per_minute = m >= 1 and any   *)
(* requests_per_hour >= 1, starting from empty windows, of m+1 consecutive *)
(* calls within one 60-second span the first m return True and the         *)
(* (m+1)-th returns False.  (The claim as stated.)                         *)
(***************************************************************************)
C2_BurstAnyHourLimit ==
    \A k \in 1..Len(log) :
        (k <= rpm_limit + 1 /\ log[k][1] - log[1][1] <= MinuteSpan)
            => (log[k][2] = (k <= rpm_limit))

(***************************************************************************)
(* C2, amended: the same, for the configurations with                      *)
(* requests_per_hour >= requests_per_minute.                               *)
(***************************************************************************)
C2_Burst ==
    rph_limit >= rpm_limit =>
        \A k \in 1..Len(log) :
            (k <= rpm_limit + 1 /\ log[k][1] - log[1][1] <= MinuteSpan)
                => (log[k][2] = (k <= rpm_limit))

\* limits 2 and 3: two calls admitted, the third, exactly 60 seconds after
\* the first, denied
C2_Witness ==
    /\ rpm_limit = 2 /\ rph_limit = 3
    /\ Len(log) = 3
    /\ log[1][2] /\ log[2][2] /\ ~log[3][2]
    /\ log[3][1] - log[1][1] = MinuteSpan

(***************************************************************************)
(* C3: allow_request returns True if and only if, after the eviction of    *)
(* the stale entries, len(minute_window) < rpm_limit and                   *)
(* len(hour_window) < rph_limit; either limit alone rejects.               *)
(***************************************************************************)
C3_AdmittedIffBothBelow ==
    [][allow_request =>
        (result' = "True" <=>
            /\ Len(Fresh(minute_window, clock, MinuteSpan)) < rpm_limit
            /\ Len(Fresh(hour_window, clock, HourSpan)) < rph_limit)]_vars

\* a call rejected by the hour limit alone: the minute window is below its limit
C3_Witness ==
    /\ result = "False"
    /\ Len(minute_window) < rpm_limit
    /\ Len(hour_window) >= rph_limit
    /\ rph_limit >= 2

(***************************************************************************)
(* C4: every call that returns True appends exactly one timestamp, the     *)
(* time of the call, to the end of both windows: each window is its        *)
(* post-eviction content followed by that timestamp.                       *)
(***************************************************************************)
C4_AdmittedAppendsOnce ==
    [][Admitted =>
        /\ minute_window' = Append(Fresh(minute_window, clock, MinuteSpan), clock)
        /\ hour_window' = Append(Fresh(hour_window, clock, HourSpan), clock)
        /\ Len(minute_window') = Len(Fresh(minute_window, clock, MinuteSpan)) + 1
        /\ Len(hour_window') = Len(Fresh(hour_window, clock, HourSpan)) + 1]_vars

\* an admitted call that found an older entry in each window
C4_Witness ==
    /\ result = "True"
    /\ Len(minute_window) = 2
    /\ Len(hour_window) = 3
    /\ minute_window[2] = clock /\ hour_window[3] = clock
    /\ hour_window[1] < minute_window[1]

(***************************************************************************)
(* C5: the windows never hold more than rpm_limit and rph_limit entries,   *)
(* and an append is never made to a window that is at its capacity: the    *)
(* deque's maxlen never drops an entry.                                    *)
(***************************************************************************)
C5_BoundWithoutOverflow ==
    [][/\ Len(minute_window') <= rpm_limit'
       /\ Len(hour_window') <= rph_limit'
       /\ (Admitted =>
            /\ Len(Fresh(minute_window, clock, MinuteSpan)) < rpm_limit
            /\ Len(Fresh(hour_window, clock, HourSpan)) < rph_limit
            /\ \A i \in 1..Len(Fresh(minute_window, clock, MinuteSpan)) :
                   minute_window'[i] = Fresh(minute_window, clock, MinuteSpan)[i]
            /\ \A i \in 1..Len(Fresh(hour_window, clock, HourSpan)) :
                   hour_window'[i] = Fresh(hour_window, clock, HourSpan)[i])]_vars

\* both windows filled to their capacity by admitted calls
C5_Witness ==
    /\ result = "True"
    /\ rpm_limit = 2 /\ rph_limit = 2
    /\ Len(minute_window) = rpm_limit
    /\ Len(hour_window) = rph_limit

(***************************************************************************)
(* C6: after any sequence of allow_request and reset calls both windows    *)
(* are sorted in ascending timestamp order, oldest entry first.            *)
(***************************************************************************)
C6_WindowsSorted == Sorted(minute_window) /\ Sorted(hour_window)

\* an hour window of three different timestamps, after a reset and new calls
C6_Witness ==
    /\ Len(hour_window) = 3
    /\ hour_window[1] < hour_window[2] /\ hour_window[2] < hour_window[3]
    /\ hour_window[1] > 0
    /\ Len(minute_window) = 2

(***************************************************************************)
(* C7: when the minute window is exhausted and more than 60 seconds pass   *)
(* without a call, the next call is admitted (the hour window being below  *)
(* rph_limit), and the eviction of the minute window takes nothing from    *)
(* the hour window, which still counts every admitted call of the last     *)
(* 3600 seconds.                                                           *)
(***************************************************************************)
C7_MinuteWindowRecovers ==
    [][(/\ allow_request
        /\ Len(minute_window) = rpm_limit
        /\ minute_window[Len(minute_window)] < clock - MinuteSpan
        /\ Len(Fresh(hour_window, clock, HourSpan)) < rph_limit)
       => /\ result' = "True"
          /\ minute_window' = <<clock>>
          /\ hour_window' = Append(Fresh(hour_window, clock, HourSpan), clock)
          /\ (Len(log) < MaxLog =>
                hour_window' = Fresh(AdmittedTimes(log'), clock, HourSpan))]_vars

\* limit 2 per minute: the two calls that exhausted the minute window are
\* still counted by the hour window after the call that followed the pause
C7_Witness ==
    /\ result = "True"
    /\ rpm_limit = 2
    /\ minute_window = <<clock>>
    /\ Len(hour_window) = 3
    /\ hour_window[2] < clock - MinuteSpan
    /\ Len(log) = 3
    /\ hour_window = AdmittedTimes(log)

\* the requests admitted by the middleware at most span seconds ago
AdmittedSince(span) ==
    {r \in Requests : allowed[r] = "True" /\ admit_at[r] >= clock - span}

\* the request is past the middleware: in its endpoint or in a call of the
\* Twitter client
InEndpoint(r) ==
    pc[r] \in {"endpoint", "verify_cookies", "client_login", "client_op"}

(***************************************************************************)
(* C8: with one RateLimiter shared by concurrent requests, each            *)
(* allow_request runs its eviction, checks and appends as one atomic unit: *)
(* no two concurrent calls both see a window below its limit and both      *)
(* append.  At any time the requests admitted in the last 60 (3600)        *)
(* seconds number at most rpm_limit (rph_limit), each of them is recorded  *)
(* in the windows, and the windows never exceed their limits.              *)
(***************************************************************************)
C8_AdmissionAtomic ==
    /\ Cardinality(AdmittedSince(MinuteSpan)) <= rpm_limit
    /\ Cardinality(AdmittedSince(HourSpan)) <= rph_limit
    /\ Len(Fresh(minute_window, clock, MinuteSpan))
           = Cardinality(AdmittedSince(MinuteSpan))
    /\ Len(Fresh(hour_window, clock, HourSpan))
           = Cardinality(AdmittedSince(HourSpan))
    /\ Len(minute_window) <= rpm_limit
    /\ Len(hour_window) <= rph_limit

\* limit 1 per minute: while an admitted request is still in its endpoint,
\* a second request arriving at the same clock reading is denied
C8_Witness ==
    /\ rpm_limit = 1
    /\ \E r1, r2 \in Requests :
          /\ r1 # r2
          /\ allowed[r1] = "True" /\ InEndpoint(r1)
          /\ allowed[r2] = "False"
          /\ admit_at[r1] = admit_at[r2]

(***************************************************************************)
(* C9: for every HTTP request allow_request is evaluated before the        *)
(* endpoint runs; when it returns False the request is answered 429 with   *)
(* the rate-limit response, and neither the endpoint nor any TwitterClient *)
(* method is called for it.                                                *)
(***************************************************************************)
C9_DeniedBeforeEndpoint ==
    \A r \in Requests :
        /\ (InEndpoint(r) \/ entered[r] \/ client_calls[r] > 0)
               => allowed[r] = "True"
        /\ status[r] # 0 => allowed[r] # "none"
        /\ allowed[r] = "False" =>
               /\ pc[r] = "done"
               /\ status[r] = 429
               /\ body[r] = "rate_limit"
               /\ ~entered[r]
               /\ client_calls[r] = 0

\* an operation request denied while a client exists: its endpoint would
\* have called the client
C9_Witness ==
    \E r \in Requests :
        /\ kind[r] = "op"
        /\ allowed[r] = "False"
        /\ status[r] = 429
        /\ twitter_client # None

(***************************************************************************)
(* C10: whenever the TwitterClient call of an admitted operation raises,   *)
(* the failure is handed to error_handler.format_error: the counter of its *)
(* category has been incremented and the response carries the error        *)
(* record.  (The claim as stated: the endpoints answer with HTTPException  *)
(* and format_error is not called.)                                        *)
(***************************************************************************)
C10_FailedOperationFormatted ==
    \A r \in Requests :
        (kind[r] = "op" /\ pc[r] = "done" /\ exc[r] # <<>>) =>
            /\ body[r] = "error_record"
            /\ error_counts[categorize_error(exc[r])] >= 1

(***************************************************************************)
(* The keyword rules as the ordered list the claims speak of.              *)
(***************************************************************************)
Rules ==
    <<[keywords |-> {KwAuth, KwUnauthorized}, category |-> "AUTH"],
      [keywords |-> {KwRate, KwTooMany},      category |-> "RATE_LIMIT"],
      [keywords |-> {KwNotFound, Kw404},      category |-> "NOT_FOUND"],
      [keywords |-> {KwValidation, KwInvalid}, category |-> "VALIDATION"],
      [keywords |-> {KwNetwork, KwConnection}, category |-> "NETWORK"],
      [keywords |-> {KwTwitter},              category |-> "TWITTER"]>>

\* the rules whose keyword set matches the lower-cased message
Matching(m) ==
    {i \in DOMAIN Rules : \E k \in Rules[i].keywords : Contains(Lower(m), k)}

\* the first of them
Earliest(m) == CHOOSE i \in Matching(m) : \A j \in Matching(m) : i <= j

\* the category the ordered rules give a message
Rules_Category(m) ==
    LET matching == Matching(m)
    IN  IF matching = {} THEN "INTERNAL"
        ELSE Rules[CHOOSE i \in matching : \A j \in matching : i <= j].category

\* a categorize_error call has returned
Categorized == category # "none"

(***************************************************************************)
(* C11: categorize_error returns the category of the first rule, in the    *)
(* order AUTH, RATE_LIMIT, NOT_FOUND, VALIDATION, NETWORK, TWITTER, whose   *)
(* keyword set matches the lower-cased message, wherever in the message    *)
(* the keywords stand.                                                     *)
(***************************************************************************)
C11_FirstMatchWins ==
    (Categorized /\ Matching(error.msg) # {}) =>
        category = Rules[Earliest(error.msg)].category

\* "Network Unauthorized": the NETWORK keyword stands first in the message,
\* the AUTH rule first in the order
C11_Witness ==
    /\ error.msg = Join(<<WNetwork, WUnauthorized>>)
    /\ Cardinality(Matching(error.msg)) > 1
    /\ category = "AUTH"

\* a format_error call has returned
Formatted == record # NoRecord

(***************************************************************************)
(* C12: categorize_error returns one of the seven categories for every     *)
(* message, INTERNAL for a message no keyword matches (the empty message   *)
(* too); the keys of error_counts stay the seven categories and            *)
(* format_error finds the key it increments.                               *)
(***************************************************************************)
C12_TotalIntoTaxonomy ==
    /\ Categorized =>
          /\ category \in Categories
          /\ Matching(error.msg) = {} => category = "INTERNAL"
    /\ DOMAIN error_counts = Categories
    /\ Formatted =>
          /\ record.category \in DOMAIN error_counts
          /\ error_counts[record.category] >= 1

\* the empty message, classified INTERNAL and counted
C12_Witness ==
    /\ error.msg = <<>>
    /\ category = "INTERNAL"
    /\ Formatted
    /\ error_counts["INTERNAL"] = 1

\* how many of the calls in l were of category c
RECURSIVE Occurrences(_, _)
Occurrences(l, c) ==
    IF l = <<>> THEN 0
    ELSE (IF Head(l) = c THEN 1 ELSE 0) + Occurrences(Tail(l), c)

\* a format_error call returns in this step
FormatErrorStep == Len(formatted') = Len(formatted) + 1

(***************************************************************************)
(* C13: a format_error(error) call adds exactly 1 to the counter of        *)
(* categorize_error(error) and leaves every other counter as it was; so    *)
(* each counter equals the number of calls of its category since the       *)
(* counters were last zero, 2 after two calls of one category.             *)
(***************************************************************************)
C13_CountsOneCategory ==
    [][FormatErrorStep =>
          LET counted == Rules_Category(error'.msg)
          IN  /\ error_counts'[counted] = error_counts[counted] + 1
              /\ \A c \in Categories \ {counted} :
                    error_counts'[c] = error_counts[c]
              /\ \A c \in Categories :
                    error_counts'[c] = Occurrences(formatted', c)]_vars

\* two calls of one category: its counter is 2, the others are 0
C13_Witness ==
    /\ Len(formatted) = 2
    /\ formatted[1] = formatted[2]
    /\ error_counts[formatted[1]] = 2
    /\ \A c \in Categories \ {formatted[1]} : error_counts[c] = 0

(***************************************************************************)
(* C14: after reset_stats(), whatever format_error calls came before, and  *)
(* in a newly built ErrorHandler, get_error_stats() has the seven          *)
(* categories as its keys and 0 as every value.                            *)
(***************************************************************************)
C14_ResetZeroesAll ==
    formatted = <<>> =>
        /\ DOMAIN CountsCopy(error_counts).val = Categories
        /\ \A c \in Categories : CountsCopy(error_counts).val[c] = 0

\* reset_stats after two format_error calls of one category: the record of
\* the last call and the mapping fetched before the reset are still with the
\* caller
C14_Witness ==
    /\ Formatted
    /\ stats # NoStats
    /\ stats.val[record.category] = 2
    /\ formatted = <<>>
    /\ error_counts = ZeroCounts

\* a reset_stats call that had counters to zero returns in this step
ResetStatsStep ==
    formatted' = <<>> /\ error_counts # ZeroCounts /\ error_counts' = ZeroCounts

\* the caller writes to the mapping it holds in this step
ModifyStatsStep ==
    \E c \in DOMAIN stats.val :
        stats.val[c] > 0 /\ stats'.val = [stats.val EXCEPT ![c] = 0]

(***************************************************************************)
(* C15: the mapping get_error_stats() returned is a copy: no later         *)
(* format_error or reset_stats call changes it, and no write to it changes *)
(* the handler's error_counts.                                             *)
(***************************************************************************)
C15_StatsAreACopy ==
    [][/\ (stats # NoStats /\ (FormatErrorStep \/ ResetStatsStep)) =>
              stats'.val = stats.val
       /\ ModifyStatsStep => error_counts' = error_counts]_vars

\* a mapping fetched when a counter stood at 2 still shows 2 after a
\* reset_stats and one more format_error of that category
C15_Witness ==
    /\ Formatted
    /\ stats # NoStats
    /\ formatted = <<record.category>>
    /\ error_counts[record.category] = 1
    /\ stats.val[record.category] = 2

(***************************************************************************)
(* C18: the record format_error(error) returns has the fields error,       *)
(* category, type, message, description and timestamp; category is         *)
(* categorize_error(error), message is the text of the failure, and        *)
(* description is the label ERROR_CATEGORIES gives that category, never    *)
(* 'Unknown Error'.                                                        *)
(***************************************************************************)
C18_RecordFields ==
    Formatted =>
        /\ DOMAIN record = {"error", "category", "type", "message",
                            "description", "timestamp"}
        /\ record.error = TRUE
        /\ record.category = categorize_error(error.msg)
        /\ record.category = Rules_Category(error.msg)
        /\ record.type = error.type
        /\ record.message = error.msg
        /\ record.description = ERROR_CATEGORIES[record.category]
        /\ record.description # "Unknown Error"

\* Exception("Unauthorized access"), as in the tests
C18_Witness ==
    /\ Formatted
    /\ error = [type |-> "Exception", msg |-> MsgUnauthorized]
    /\ record.message = MsgUnauthorized
    /\ record.category = "AUTH"
    /\ record.description = "Authentication Error"

\* a reset() call returns in this step, after allow_request calls
ResetStep == log # <<>> /\ log' = <<>>

(***************************************************************************)
(* C17: after reset(), whatever allow_request calls came before,           *)
(* get_stats() returns requests_last_minute = 0, requests_last_hour = 0    *)
(* and the two limits the limiter was built with; no call changes the      *)
(* limits.                                                                 *)
(***************************************************************************)
C17_ResetThenStats ==
    [][/\ rpm_limit' = rpm_limit
       /\ rph_limit' = rph_limit
       /\ ResetStep =>
             get_stats' = [requests_last_minute |-> 0,
                           requests_last_hour   |-> 0,
                           minute_limit         |-> rpm_limit,
                           hour_limit           |-> rph_limit]]_vars

\* reset() after a denied call: the call record is empty again, the value
\* the last call returned is still with the caller
C17_Witness ==
    /\ result = "False"
    /\ log = <<>>
    /\ get_stats.requests_last_hour = 0
    /\ get_stats.minute_limit = rpm_limit

\* the sum of the counters
RECURSIVE SumOver(_, _)
SumOver(counts, cs) ==
    IF cs = {} THEN 0
    ELSE LET c == CHOOSE x \in cs : TRUE
         IN  counts[c] + SumOver(counts, cs \ {c})

\* the requests whose exception format_error has formatted
FormattedRequests == {r \in Requests : body[r] = "error_record"}

(***************************************************************************)
(* C16: with any number of requests in the exception path at once, in any  *)
(* interleaving, every format_error call is counted: the sum of the        *)
(* counters is the number of calls that have returned, and each counter    *)
(* is the number of them of its category.                                  *)
(***************************************************************************)
C16_NoLostIncrement ==
    /\ SumOver(error_counts, Categories) = Cardinality(FormattedRequests)
    /\ \A c \in Categories :
          error_counts[c] =
              Cardinality({r \in FormattedRequests : Rules_Category(exc[r]) = c})

\* two requests of one category were in the exception path at once, and
\* both are counted
C16_Witness ==
    /\ FormattedRequests = Requests
    /\ \A r \in Requests : Rules_Category(exc[r]) = "RATE_LIMIT"
    /\ error_counts["RATE_LIMIT"] = NumRequests

\* no TwitterClient object is authenticated: no login has succeeded, or
\* the client of every login that has was logged out since
NoAuthenticatedSession == \A o \in Requests : ~authenticated[o]

\* the operation endpoint of request r runs in this step, up to its answer
\* or its first call of the client
OperationStep(r) ==
    kind[r] = "op" /\ pc[r] = "endpoint" /\ pc'[r] # "endpoint"

(***************************************************************************)
(* C19: an operation endpoint that runs while there is no authenticated    *)
(* session, whatever logins, failed logins and logouts came before,        *)
(* answers 401 'Not authenticated' and calls no TwitterClient operation.   *)
(* (The claim as stated: the endpoints test only whether the global        *)
(* twitter_client is set, and login sets it before the login has           *)
(* succeeded.)                                                             *)
(***************************************************************************)
C19_UnauthenticatedGets401 ==
    [][\A r \in Requests :
          (OperationStep(r) /\ NoAuthenticatedSession) =>
              /\ pc'[r] = "done"
              /\ status'[r] = 401
              /\ body'[r] = "detail"
              /\ client_calls'[r] = 0]_vars

(***************************************************************************)
(* C20: a /tweets/create request whose text is empty never gets a success  *)
(* response: also with an authenticated client and a create_tweet that     *)
(* would succeed it is answered 400, 422 or 500.  (The claim as stated,    *)
(* in the case it names: TweetRequest.text is an unconstrained str and     *)
(* the endpoint passes it to the client unvalidated.)                      *)
(***************************************************************************)
C20_EmptyTweetRejected ==
    \A r \in Requests :
        (/\ kind[r] = "op" /\ text[r] = <<>> /\ pc[r] = "done"
         /\ client_calls[r] > 0
         /\ twitter_client # None /\ authenticated[twitter_client]) =>
            /\ status[r] \in {400, 422, 500}
            /\ body[r] # "success"

\* the text holds a character that is not whitespace
NonBlank(t) == \E i \in DOMAIN t : t[i].ch \notin Whitespace

\* the message mentions the word
Mentions(m, word) == Contains(Lower(m), word)

WordEmpty == <<"e", "m", "p", "t", "y">>
WordLong == <<"l", "o", "n", "g">>

(***************************************************************************)
(* C21: validate_tweet_text(text) returns (True, "") exactly when text     *)
(* holds a non-whitespace character and is at most 280 long; for an empty  *)
(* or all-whitespace text it returns False with a message that mentions    *)
(* 'empty', also when that text is longer than 280; for any other text     *)
(* longer than 280, False with a message that mentions 'long'.             *)
(***************************************************************************)
C21_ValidateTweetText ==
    verdict.called =>
        LET n == TextLen(tweet)
            empty == Mentions(verdict.message, WordEmpty)
            long == Mentions(verdict.message, WordLong)
        IN  /\ verdict.is_valid <=> (NonBlank(tweet) /\ n <= TweetLimit)
            /\ verdict.is_valid => verdict.message = <<>>
            /\ ~NonBlank(tweet) => (~verdict.is_valid /\ empty /\ ~long)
            /\ (NonBlank(tweet) /\ n > TweetLimit) =>
                  (~verdict.is_valid /\ long /\ ~empty)

\* 281 spaces: longer than the limit and all whitespace, reported as empty
C21_Witness ==
    /\ verdict.called
    /\ tweet # <<>>
    /\ ~NonBlank(tweet)
    /\ TextLen(tweet) > TweetLimit
    /\ ~verdict.is_valid
    /\ Mentions(verdict.message, WordEmpty)

(***************************************************************************)
(* C22: while the library keeps raising TooManyRequests, a create_tweet or *)
(* search_tweets call retries at most max_retries = 3 times, so calls the  *)
(* library at most 4 times, and when its retries are spent it has raised   *)
(* TooManyRequests('Max retries exceeded').  (The claim as stated:         *)
(* _handle_rate_limit is always called with retry_count = 0.)              *)
(***************************************************************************)
C22_RetriesBounded ==
    \A r \in Requests : attempts[r] <= MaxRetries + 1

\* how many logged calls were admitted at a time in the closed interval
\* [from, from + span]
AdmittedWithin(from, span) ==
    Cardinality({j \in DOMAIN log :
                    log[j][2] /\ log[j][1] >= from /\ log[j][1] <= from + span})

(***************************************************************************)
(* C23: among the allow_request calls since the limiter was built or       *)
(* reset, with a clock that never goes back, no closed interval of 60      *)
(* seconds holds more than rpm_limit admitted calls and no closed interval *)
(* of 3600 seconds more than rph_limit: an entry exactly 60 s (3600 s) old *)
(* still counts.  (An interval that holds admitted calls can be taken to   *)
(* start at the first of them.)                                            *)
(***************************************************************************)
C23_SlidingWindow ==
    \A i \in DOMAIN log :
        log[i][2] =>
            /\ AdmittedWithin(log[i][1], MinuteSpan) <= rpm_limit
            /\ AdmittedWithin(log[i][1], HourSpan) <= rph_limit

\* a call exactly 60 s after an admitted one is denied by the minute
\* window alone: the hour window still has room
C23_Witness ==
    \E i, j \in DOMAIN log :
        /\ log[i][2] /\ ~log[j][2]
        /\ log[j][1] = log[i][1] + MinuteSpan
        /\ AdmittedWithin(log[i][1], MinuteSpan) = rpm_limit
        /\ AdmittedWithin(log[i][1], HourSpan) < rph_limit

\* the caller's record holds every call made since the limiter was built or
\* reset, the one being made included
LogComplete == Len(log) < MaxLog

\* every call the record shows as admitted was made more than span seconds
\* before now
AllAdmittedBefore(now, span) ==
    \A j \in DOMAIN log : log[j][2] => now > log[j][1] + span

(***************************************************************************)
(* C24: the limiter never locks permanently.  With rpm_limit >= 1 and      *)
(* rph_limit >= 1, an allow_request made more than 3600 seconds after the  *)
(* most recent admitted call returns True.  Denied calls consume no quota: *)
(* whether a call is admitted depends on the admitted calls of the last    *)
(* 60 and 3600 seconds alone, so denied calls, however many, never         *)
(* postpone the time at which the next call is admitted.                   *)
(***************************************************************************)
C24_NeverLocks ==
    [][allow_request /\ LogComplete /\ rpm_limit >= 1 /\ rph_limit >= 1 =>
         /\ AllAdmittedBefore(clock, HourSpan) => result' = "True"
         /\ result' = "True" <=>
                /\ AdmittedWithin(clock - MinuteSpan, MinuteSpan) < rpm_limit
                /\ AdmittedWithin(clock - HourSpan, HourSpan) < rph_limit]_vars

\* hour limit 1: a call is admitted, a call within the hour is denied, and
\* a call more than 3600 s after the admitted one, yet within 3600 s of the
\* denied one, is admitted
C24_Witness ==
    /\ rph_limit = 1
    /\ result = "True"
    /\ Len(log) = 3
    /\ log[1][2] /\ ~log[2][2] /\ log[3][2]
    /\ log[3][1] = clock
    /\ log[3][1] > log[1][1] + HourSpan
    /\ log[3][1] <= log[2][1] + HourSpan

\* s is the tail of w: the same entries in the same order
IsSuffix(s, w) ==
    /\ Len(s) <= Len(w)
    /\ s = SubSeq(w, Len(w) - Len(s) + 1, Len(w))

(***************************************************************************)
(* C25: in every reachable state of a RateLimiter, after any sequence of   *)
(* allow_request and reset calls, minute_window is a suffix of             *)
(* hour_window: the same timestamps in the same order at the tail.  Hence  *)
(* requests_last_minute <= requests_last_hour in every get_stats() result. *)
(***************************************************************************)
C25_MinuteSuffixOfHour ==
    /\ IsSuffix(minute_window, hour_window)
    /\ get_stats.requests_last_minute <= get_stats.requests_last_hour

\* after three admitted calls the minute window holds the last one only and
\* the hour window all three
C25_Witness ==
    /\ result = "True"
    /\ Len(minute_window) = 1
    /\ Len(hour_window) = 3
    /\ hour_window = AdmittedTimes(log)
    /\ minute_window = <<hour_window[3]>>

\* the logout endpoint of request r runs in this step and answers success
LogoutSuccess(r) ==
    /\ kind[r] = "logout" /\ pc[r] = "endpoint"
    /\ pc'[r] = "done" /\ status'[r] = 200

\* a logout has returned success and since then no login but that of
\* request r, which starts in this step, has run
NextLoginAfterLogout(r) ==
    /\ kind[r] = "login" /\ pc[r] = "endpoint" /\ pc'[r] # "endpoint"
    /\ \E q \in Requests : kind[q] = "logout" /\ pc[q] = "done" /\ status[q] = 200
    /\ \A p \in Requests \ {r} : kind[p] = "login" => ~entered[p]

(***************************************************************************)
(* C26: after POST /auth/logout returns success, whatever the state        *)
(* before the call, the server holds no client (twitter_client is None,    *)
(* /auth/status reports authenticated = false and cookies_exist = false)   *)
(* and the persisted cookie file no longer exists, so the next /auth/login *)
(* cannot take the saved-cookie path and goes to the full credential       *)
(* login.  (The claim as stated: without a client, logout answers success  *)
(* and leaves the cookie file where it is.)                                *)
(***************************************************************************)
C26_LogoutRemovesSession ==
    [][\A r \in Requests :
          /\ LogoutSuccess(r) =>
                 /\ twitter_client' = None
                 /\ ~auth_status'.authenticated
                 /\ ~auth_status'.cookies_exist
                 /\ ~cookie_file'
          /\ NextLoginAfterLogout(r) => pc'[r] = "client_login"]_vars

=============================================================================
